---- MODULE Spec2Model ----
(***************************************************************************)
(* Eye-tracking servers of Optivue-EyeExercise.                            *)
(*                                                                         *)
(*  - EnhancedEyeTracker (attached_assets): the blink / drowsiness state   *)
(*    machine of process_frame.                                            *)
(*  - EnhancedEyeTrackingServer (attached_assets): the server that drives  *)
(*    that tracker from its acquisition loop and from get_enhanced_gaze.   *)
(*  - EnhancedEyeTrackingServer (server): camera start / stop and the      *)
(*    acquisition loop _read_frames.                                       *)
(*                                                                         *)
(* EAR values are in hundredths (0.20 is 20), times in seconds.            *)
(***************************************************************************)
EXTENDS Integers, FiniteSets, Sequences, TLC

\* ------------------------------------------------------------- constants
EAR_THRESHOLD == 20
ear_consecutive_frames == 3
DrowsyFactor == 5
RateWindow == 60
DrowsyWindow == 60
LowBlinkRate == 5
max_failed_reads == 10
NumCameraIndices == 3
YawLimit == 25
DegenerateEar == 30

\* ---------------------------------------------------------------- bounds
\* Seconds that may pass between two reads of the clock.
TimeStep == 30
\* The clock stops advancing here.
MaxTime == 180
\* total_blinks is not driven beyond this.
MaxBlinks == 5
\* A closure run is not driven beyond this many frames.
MaxRun == 16
\* _read_frames threads that can exist at once.
MaxThreads == 2
\* start_camera and stop_camera requests that can be in progress at once.
NumStarters == 1
NumStoppers == 1
\* The attached_assets server: closure runs, blink totals and the clock it is
\* driven to, and the _read_frames threads a start request may find alive.
MaxServerRun == 4
MaxServerBlinks == 2
MaxServerTime == 90
MaxLoopThreads == 1
\* Captured frames are numbered up to MaxStamp.
MaxStamp == 2

VARIABLES
    \* EnhancedEyeTracker (attached_assets)
    face_mesh, ear_counter, total_blinks, last_blink_time, blink_rate,
    \* time.time()
    now,
    \* the last value process_frame returned, and the history of what was fed
    result, fed, run, base, drowsySeen, prev,
    \* EnhancedEyeTrackingServer
    cap, camera_active, tracking_active, current_frame, frame_lock,
    last_detection_result, frame_thread, frame_thread_active,
    \* the _read_frames threads (with streak, the number of reads that have
    \* failed since the thread's last successful read) and the request
    \* handlers in progress
    threads, starts, stops,
    \* the last response a command handler sent
    reply,
    \* a stop_camera request was issued and no start_camera request has been
    \* issued or has acted since
    stopped,
    \* the get_enhanced_gaze request in progress, and the last response it sent
    \* in the consumer's tracking session
    poll, gaze,
    \* the video_feed generator in progress: its position and frame_to_send,
    \* with the number of the last frame captured while a stream was open
    \* (clock), of the frame in current_frame (cur) and of the frame the
    \* generator read last (last)
    stream

trackerVars == <<face_mesh, ear_counter, total_blinks, last_blink_time, blink_rate>>
historyVars == <<result, fed, run, base, drowsySeen, prev>>
serverVars == <<cap, camera_active, tracking_active, current_frame, frame_lock,
                last_detection_result, frame_thread, frame_thread_active>>
handlerVars == <<starts, stops, reply, stopped>>
gazeVars == <<poll, gaze>>
feedVars == <<stream>>
vars == <<trackerVars, now, historyVars, serverVars, threads, handlerVars, gazeVars,
         feedVars>>

\* ---------------------------------------------------------------- frames
\* What the landmark provider and solvePnP make of a frame: no face, or a face
\* with its avg_ear and its pose (solvePnP success, sy >= 1e-6, yaw in degrees).
EarValues == {5, 19, 20, 35}
Poses == {[ok |-> FALSE, sy_ok |-> TRUE, yaw |-> 0],
          [ok |-> TRUE, sy_ok |-> FALSE, yaw |-> 0],
          [ok |-> TRUE, sy_ok |-> TRUE, yaw |-> 5],
          [ok |-> TRUE, sy_ok |-> TRUE, yaw |-> 25],
          [ok |-> TRUE, sy_ok |-> TRUE, yaw |-> 40]}
NoFaceFrame == [face |-> FALSE, ear |-> DegenerateEar, pose |-> [ok |-> FALSE, sy_ok |-> TRUE, yaw |-> 0]]
FaceFrames == [face : {TRUE}, ear : EarValues, pose : Poses]
Frames == {NoFaceFrame} \cup FaceFrames
Elapsed == {0, TimeStep}

Abs(x) == IF x < 0 THEN -x ELSE x

\* dict.get(key, default)
Get(d, key, default) == IF key \in DOMAIN d THEN d[key] ELSE default

\* ------------------------------------------- EnhancedEyeTracker.process_frame
IsDiverted_YawOnly(pose) == ~(Abs(pose.yaw) < YawLimit)

IsDiverted(pose) == ~(pose.ok /\ pose.sy_ok /\ Abs(pose.yaw) < YawLimit)

IsClosed_AtThreshold(avg_ear) == avg_ear <= EAR_THRESHOLD

IsClosed(avg_ear) == avg_ear < EAR_THRESHOLD

SustainedClosure_Strict(counter) == counter > ear_consecutive_frames * DrowsyFactor

SustainedClosure(counter) == counter >= ear_consecutive_frames * DrowsyFactor

BlinkCompleted_OneEarly(counter) == counter >= ear_consecutive_frames - 1

BlinkCompleted(counter) == counter >= ear_consecutive_frames

WindowElapsed(t, last) == t - last > RateWindow

LowRateDrowsy_AtWindow(t, last, rate) == t - last >= DrowsyWindow /\ rate < LowBlinkRate

LowRateDrowsy(t, last, rate) == t - last > DrowsyWindow /\ rate < LowBlinkRate

\* The tracker after the blink step of process_frame on a face-detected frame
\* read at time t1 (line 96).
BlinkStep(avg_ear, t1) ==
    IF IsClosed(avg_ear)
    THEN [ear_counter |-> ear_counter + 1, total_blinks |-> total_blinks,
          last_blink_time |-> last_blink_time, blink_rate |-> blink_rate,
          drowsy |-> SustainedClosure(ear_counter + 1)]
    ELSE IF BlinkCompleted(ear_counter)
         THEN IF WindowElapsed(t1, last_blink_time)
              THEN [ear_counter |-> 0, total_blinks |-> 0,
                    last_blink_time |-> t1, blink_rate |-> total_blinks + 1,
                    drowsy |-> FALSE]
              ELSE [ear_counter |-> 0, total_blinks |-> total_blinks + 1,
                    last_blink_time |-> last_blink_time, blink_rate |-> blink_rate,
                    drowsy |-> FALSE]
         ELSE [ear_counter |-> 0, total_blinks |-> total_blinks,
               last_blink_time |-> last_blink_time, blink_rate |-> blink_rate,
               drowsy |-> FALSE]

\* The dict process_frame(frame) returns; the clock is read at t1 (line 96)
\* and at t2 (line 105).
process_frame_return(frame, t1, t2) ==
    IF ~face_mesh
    THEN [face_detected |-> FALSE, is_diverted |-> TRUE,
          is_drowsy |-> FALSE, success |-> FALSE]
    ELSE IF ~frame.face
    THEN [face_detected |-> FALSE, is_diverted |-> TRUE,
          is_drowsy |-> FALSE, success |-> TRUE]
    ELSE LET s == BlinkStep(frame.ear, t1) IN
         [face_detected |-> TRUE, is_diverted |-> IsDiverted(frame.pose),
          is_drowsy |-> s.drowsy \/ LowRateDrowsy(t2, s.last_blink_time, s.blink_rate),
          blink_count |-> s.total_blinks, success |-> TRUE]

\* The call gets past its two early returns (if self.face_mesh is None, if not
\* results.multi_face_landmarks) to the blink step.
Measured_WithoutFace(frame) == face_mesh

Measured(frame) == face_mesh /\ frame.face

\* process_frame(frame): the tracker's fields after the call, and the dict it
\* returns in out.
process_frame(frame, t1, t2, out) ==
    /\ out = process_frame_return(frame, t1, t2)
    /\ IF Measured(frame)
       THEN LET s == BlinkStep(frame.ear, t1) IN
            /\ UNCHANGED face_mesh
            /\ ear_counter' = s.ear_counter
            /\ total_blinks' = s.total_blinks
            /\ last_blink_time' = s.last_blink_time
            /\ blink_rate' = s.blink_rate
       ELSE UNCHANGED trackerVars

\* The frames the model feeds: closure runs and blink totals stay in the bounds.
InBounds(frame) ==
    frame.face =>
        /\ IsClosed(frame.ear) => run < MaxRun /\ ear_counter < MaxRun
        /\ ~IsClosed(frame.ear) => total_blinks < MaxBlinks

\* The history a call leaves. fed is the frame fed; run is the length of the
\* run of closed face-detected frames the call extends (0 once an open one
\* ends it); base is the blink_count reported before that run began;
\* drowsySeen tells whether a frame of the run came back is_drowsy; prev holds
\* run, base, drowsySeen and the reported blink_count as they were before the
\* call, and in blinkAt the time of the most recent counted blink (-1: none).
Recorded(frame, out, blinkAt) ==
    LET seen == face_mesh /\ frame.face
        closed == seen /\ frame.ear < 20
        count == Get(result, "blink_count", prev.count)
    IN  /\ result' = out
        /\ fed' = frame
        /\ prev' = [run |-> run, count |-> count, base |-> base,
                    drowsySeen |-> drowsySeen, called |-> TRUE, blinkAt |-> blinkAt]
        /\ run' = IF ~seen THEN run ELSE IF closed THEN run + 1 ELSE 0
        /\ base' = IF seen /\ ~closed THEN out.blink_count ELSE base
        /\ drowsySeen' = IF ~seen THEN drowsySeen
                         ELSE IF closed THEN drowsySeen \/ out.is_drowsy ELSE FALSE

Record(frame, out) == Recorded(frame, out, prev.blinkAt)

\* EnhancedEyeTracker.__init__
TrackerInit ==
    /\ face_mesh \in BOOLEAN
    /\ ear_counter = 0
    /\ total_blinks = 0
    /\ last_blink_time = now
    /\ blink_rate = 0

HistoryInit ==
    /\ result = [face_detected |-> FALSE, is_diverted |-> TRUE,
                 is_drowsy |-> FALSE, success |-> TRUE]
    /\ fed = NoFaceFrame
    /\ run = 0
    /\ base = 0
    /\ drowsySeen = FALSE
    /\ prev = [run |-> 0, count |-> 0, base |-> 0, drowsySeen |-> FALSE,
               called |-> FALSE, blinkAt |-> -1]

\* ------------------------------------------------ the tracker fed directly
FeedFrame ==
    \E frame \in Frames, d1 \in Elapsed, d2 \in Elapsed :
        /\ now + d1 + d2 <= MaxTime
        /\ InBounds(frame)
        /\ now' = now + d1 + d2
        /\ process_frame(frame, now + d1, now + d1 + d2, result')
        /\ Record(frame, result')
        /\ UNCHANGED <<serverVars, threads, handlerVars, gazeVars>>
        /\ UNCHANGED feedVars

\* The tracker fed frames that differ in their eyes only, with the time of
\* each counted blink kept: a call counts a blink when it changes
\* total_blinks or rolls the window.
TimedFrames == {f \in Frames : ~f.face \/ (f.ear \in {5, 35} /\ f.pose.yaw = 5)}

FeedFrameTimed ==
    \E frame \in TimedFrames, d1 \in Elapsed, d2 \in Elapsed :
        /\ now + d1 + d2 <= MaxTime
        /\ InBounds(frame)
        /\ now' = now + d1 + d2
        /\ process_frame(frame, now + d1, now + d1 + d2, result')
        /\ Recorded(frame, result',
                    IF total_blinks' # total_blinks \/ last_blink_time' # last_blink_time
                    THEN now + d1 ELSE prev.blinkAt)
        /\ UNCHANGED <<serverVars, threads, handlerVars, gazeVars>>
        /\ UNCHANGED feedVars

\* ------------------------------------------------------- _calculate_ear
\* The eyes measured: six landmarks p0..p5 (eye[1]..eye[6]), the outer corner
\* p0 at the origin, the inner corner p3 on it (no width), across or aslant,
\* and the lids MaxLid apart at most. Their distances are whole numbers.
MaxLid == 2
EyeCorners == {<<0, 0>>, <<3, 4>>, <<12, 0>>}
Eye(corner, a) == <<(<<0, 0>>), <<1, a>>, <<2, a>>, corner, <<2, 0>>, <<1, 0>>>>

ISqrt(n) == CHOOSE r \in 0..n : r * r <= n /\ n < (r + 1) * (r + 1)
SquaredDistance(p, q) == (p[1] - q[1]) * (p[1] - q[1]) + (p[2] - q[2]) * (p[2] - q[2])
IsSquare(n) == ISqrt(n) * ISqrt(n) = n

\* dist.euclidean(p, q)
euclidean(p, q) == ISqrt(SquaredDistance(p, q))

Eyes == {e \in {Eye(c, a) : c \in EyeCorners, a \in 0..MaxLid} :
            /\ IsSquare(SquaredDistance(e[2], e[6]))
            /\ IsSquare(SquaredDistance(e[3], e[5]))
            /\ IsSquare(SquaredDistance(e[1], e[4]))}

\* _calculate_ear(eye_landmarks): the ratio as a fraction num / den
calculate_ear_LowFallback(eye_landmarks) ==
    LET A == euclidean(eye_landmarks[2], eye_landmarks[6])
        B == euclidean(eye_landmarks[3], eye_landmarks[5])
        C == euclidean(eye_landmarks[1], eye_landmarks[4])
    IN  IF C # 0 THEN [num |-> A + B, den |-> 2 * C]
        ELSE [num |-> 10, den |-> 100]

calculate_ear(eye_landmarks) ==
    LET A == euclidean(eye_landmarks[2], eye_landmarks[6])
        B == euclidean(eye_landmarks[3], eye_landmarks[5])
        C == euclidean(eye_landmarks[1], eye_landmarks[4])
    IN  IF C # 0 THEN [num |-> A + B, den |-> 2 * C]
        ELSE [num |-> DegenerateEar, den |-> 100]

\* avg_ear = (_calculate_ear(left_eye_pts) + _calculate_ear(right_eye_pts)) / 2.0,
\* in hundredths rounded down (which is below 20 exactly when avg_ear < 0.20)
avg_ear(left_eye_pts, right_eye_pts) ==
    LET l == calculate_ear(left_eye_pts)
        r == calculate_ear(right_eye_pts)
    IN  (100 * (l.num * r.den + r.num * l.den)) \div (2 * l.den * r.den)

\* process_frame on a face whose eyes have the given landmarks; closure runs
\* are kept below MaxEyeRun frames.
MaxEyeRun == 2

FeedLandmarks ==
    \E left_eye_pts \in Eyes, right_eye_pts \in Eyes :
        LET frame == [face |-> TRUE, ear |-> avg_ear(left_eye_pts, right_eye_pts),
                      pose |-> [ok |-> TRUE, sy_ok |-> TRUE, yaw |-> 5],
                      left |-> left_eye_pts, right |-> right_eye_pts]
        IN  /\ IsClosed(frame.ear) => run < MaxEyeRun
            /\ InBounds(frame)
            /\ UNCHANGED now
            /\ process_frame(frame, now, now, result')
            /\ Record(frame, result')
            /\ UNCHANGED <<serverVars, threads, handlerVars, gazeVars>>
            /\ UNCHANGED feedVars

\* -------------------------------------------------------------------
\* EnhancedEyeTrackingServer (src/server/enhanced_eye_tracking_server.py)
\* -------------------------------------------------------------------
None == [none |-> TRUE]
ThreadIds == 1..MaxThreads
StartIds == 1..NumStarters
StopIds == 1..NumStoppers

\* What the camera delivers to this server: a frame with or without a face.
OpenFaceFrame == [face |-> TRUE, ear |-> 35, pose |-> [ok |-> TRUE, sy_ok |-> TRUE, yaw |-> 5]]
CapturedFrames == {NoFaceFrame, OpenFaceFrame}

DeadThread == [pc |-> "dead", failed_reads |-> 0, frame |-> None, annotated |-> None, pubs |-> 0,
               stamp |-> 0, streak |-> 0]
IdleStart == [pc |-> "idle", idx |-> 0]
IdleStop == [pc |-> "idle"]
IdlePoll == [pc |-> "idle", frame |-> None]
IdleStream == [pc |-> "idle", frame |-> None, clock |-> 0, cur |-> 0, last |-> 0,
               fresh |-> FALSE]
Alive(t) == threads[t].pc # "dead"
Running == {t \in ThreadIds : Alive(t)}

Reply(route, success, status) == [route |-> route, success |-> success, status |-> status]

\* __init__
ServerInit ==
    /\ cap = "none"
    /\ camera_active = FALSE
    /\ tracking_active = FALSE
    /\ current_frame = None
    /\ frame_lock = 0
    /\ last_detection_result = None
    /\ frame_thread = 0
    /\ frame_thread_active = FALSE
    /\ threads = [t \in ThreadIds |-> DeadThread]
    /\ starts = [h \in StartIds |-> IdleStart]
    /\ stops = [h \in StopIds |-> IdleStop]
    /\ reply = Reply("none", TRUE, 200)
    /\ stopped = FALSE
    /\ poll = IdlePoll
    /\ gaze = None
    /\ stream = IdleStream

\* EnhancedEyeTracker.process_and_draw_frame (src/server/enhanced_eye_tracker.py):
\* the result dict; failed tells that face_detection.process raised.
process_and_draw_frame(frame, failed) ==
    IF failed THEN [face_detected |-> FALSE, success |-> FALSE]
    ELSE [face_detected |-> frame.face, success |-> TRUE]

\* ------------------------------------------------------------ _read_frames
\* while self.frame_thread_active and self.camera_active, then
\* if not (self.cap and self.cap.isOpened()): sleep and continue
while_check(t) ==
    /\ threads[t].pc = "while"
    /\ threads' = [threads EXCEPT ![t] =
            IF ~(frame_thread_active /\ camera_active) THEN DeadThread
            ELSE IF cap # "open" THEN @
            ELSE [@ EXCEPT !.pc = "read"]]
    /\ UNCHANGED <<gazeVars, trackerVars, now, historyVars, serverVars, handlerVars>>
    /\ UNCHANGED feedVars

\* Frames are numbered in the order of their capture while a stream is open.
Tick == IF stream.pc = "idle" \/ stream.clock >= MaxStamp THEN stream.clock
        ELSE stream.clock + 1

\* The camera fails under one thread's reads at a time.
CanFail(t) == cap = "open" => \A u \in ThreadIds \ {t} : threads[u].failed_reads = 0

\* if failed_reads >= max_failed_reads
TooManyFailures_Strict(failed_reads) == failed_reads > max_failed_reads
TooManyFailures(failed_reads) == failed_reads >= max_failed_reads

\* ret, frame = self.cap.read() and the failed_reads bookkeeping. A read of
\* None raises and ends the thread; a released handle returns no frame.
cap_read(t) ==
    /\ threads[t].pc = "read"
    /\ \E ok \in BOOLEAN, frame \in CapturedFrames :
        /\ ~ok => CanFail(t)
        /\ IF cap = "none"
           THEN /\ threads' = [threads EXCEPT ![t] = DeadThread]
                /\ UNCHANGED camera_active
           ELSE IF cap = "open" /\ ok
           THEN /\ threads' = [threads EXCEPT ![t] =
                       [@ EXCEPT !.pc = "detect", !.failed_reads = 0, !.frame = frame,
                                 !.stamp = Tick, !.streak = 0]]
                /\ UNCHANGED camera_active
           ELSE IF TooManyFailures(threads[t].failed_reads + 1)
           THEN /\ threads' = [threads EXCEPT ![t] =
                       [DeadThread EXCEPT !.streak = threads[t].streak + 1]]
                /\ camera_active' = FALSE
           ELSE /\ threads' = [threads EXCEPT ![t] =
                       [@ EXCEPT !.pc = "while", !.failed_reads = @ + 1,
                                 !.streak = @ + 1]]
                /\ UNCHANGED camera_active
        /\ stream' = IF cap = "open" /\ ok THEN [stream EXCEPT !.clock = Tick] ELSE stream
    /\ UNCHANGED <<gazeVars, trackerVars, now, historyVars, cap, tracking_active, current_frame,
                   frame_lock, last_detection_result, frame_thread,
                   frame_thread_active, handlerVars>>

\* if self.tracking_active: result, annotated_frame = process_and_draw_frame(frame)
\* else: self.last_detection_result = None
detect_in(t, s) ==
    /\ threads[t].pc = "detect"
    /\ \E failed \in BOOLEAN :
        IF tracking_active
        THEN /\ last_detection_result' = process_and_draw_frame(threads[t].frame, failed)
             /\ threads' = [threads EXCEPT ![t] =
                    [@ EXCEPT !.pc = "publish", !.frame = None,
                              !.annotated = threads[t].frame]]
        ELSE /\ ~failed
             /\ last_detection_result' = None
             /\ threads' = [threads EXCEPT ![t] =
                    [@ EXCEPT !.pc = "publish", !.frame = None,
                              !.annotated = threads[t].frame]]
    /\ UNCHANGED <<gazeVars, trackerVars, now, historyVars, cap, camera_active, tracking_active,
                   current_frame, frame_lock, frame_thread, frame_thread_active,
                   handlerVars>>
    /\ stream' = s

detect(t) == detect_in(t, stream)

\* The same step, with the history that the stored result is one of the camera
\* session in progress.
detect_fresh(t) == detect_in(t, [stream EXCEPT !.fresh = TRUE])

\* An exception raised in process_and_draw_frame outside its try block
\* (cv2.cvtColor, the drawing calls) is caught nowhere in _read_frames: the
\* thread ends.
detect_raises(t) ==
    /\ threads[t].pc = "detect"
    /\ tracking_active
    /\ threads' = [threads EXCEPT ![t] = DeadThread]
    /\ UNCHANGED <<gazeVars, trackerVars, now, historyVars, serverVars, handlerVars,
                   feedVars>>

\* with self.frame_lock: self.current_frame = annotated_frame
publish(t) ==
    /\ threads[t].pc = "publish"
    /\ frame_lock = 0
    /\ current_frame' = threads[t].annotated
    /\ threads' = [threads EXCEPT ![t] =
            [@ EXCEPT !.pc = "while", !.frame = None, !.annotated = None,
                      !.pubs = IF stopped /\ @ < 2 THEN @ + 1 ELSE @]]
    /\ stream' = [stream EXCEPT !.cur = threads[t].stamp]
    /\ UNCHANGED <<gazeVars, trackerVars, now, historyVars, cap, camera_active, tracking_active,
                   frame_lock, last_detection_result, frame_thread,
                   frame_thread_active, handlerVars>>

\* --------------------------------------------------------------- start_camera
\* if self.camera_active: return 'Camera is already active'
start_camera(h) ==
    /\ starts[h].pc = "idle"
    /\ stopped' = FALSE
    /\ threads' = [t \in ThreadIds |-> [threads[t] EXCEPT !.pubs = 0]]
    /\ IF camera_active
       THEN /\ reply' = Reply("start_camera", TRUE, 200)
            /\ UNCHANGED starts
       ELSE /\ starts' = [starts EXCEPT ![h] = [pc |-> "open", idx |-> 0]]
            /\ UNCHANGED reply
    /\ UNCHANGED <<gazeVars, trackerVars, now, historyVars, serverVars, stops>>
    /\ UNCHANGED feedVars

\* self.cap = cv2.VideoCapture(idx), the test read, and the release of a
\* handle that did not open or did not read; after the last index, the 500.
start_camera_open(h) ==
    /\ starts[h].pc = "open"
    /\ \E opened \in BOOLEAN :
        IF opened
        THEN /\ cap' = "open"
             /\ starts' = [starts EXCEPT ![h] = [@ EXCEPT !.pc = "launch"]]
             /\ UNCHANGED reply
        ELSE /\ cap' = "closed"
             /\ IF starts[h].idx + 1 < NumCameraIndices
                THEN /\ starts' = [starts EXCEPT ![h] = [@ EXCEPT !.idx = @ + 1]]
                     /\ UNCHANGED reply
                ELSE /\ starts' = [starts EXCEPT ![h] = IdleStart]
                     /\ reply' = Reply("start_camera", FALSE, 500)
    /\ stopped' = FALSE
    /\ UNCHANGED <<gazeVars, trackerVars, now, historyVars, camera_active, tracking_active,
                   current_frame, frame_lock, last_detection_result, frame_thread,
                   frame_thread_active, threads, stops>>
    /\ UNCHANGED feedVars

\* self.camera_active = True; self.frame_thread_active = True;
\* self.frame_thread = threading.Thread(target=self._read_frames); start()
start_camera_launch_in(h, s) ==
    /\ starts[h].pc = "launch"
    /\ \E t \in ThreadIds :
        /\ ~Alive(t)
        /\ \A u \in ThreadIds : u < t => Alive(u)
        /\ threads' = [threads EXCEPT ![t] = [DeadThread EXCEPT !.pc = "while"]]
        /\ frame_thread' = t
    /\ camera_active' = TRUE
    /\ frame_thread_active' = TRUE
    /\ starts' = [starts EXCEPT ![h] = IdleStart]
    /\ reply' = Reply("start_camera", TRUE, 200)
    /\ stopped' = FALSE
    /\ UNCHANGED <<gazeVars, trackerVars, now, historyVars, cap, tracking_active, current_frame,
                   frame_lock, last_detection_result, stops>>
    /\ stream' = s

start_camera_launch(h) == start_camera_launch_in(h, stream)

\* The same step, with the history that a new camera session begins: what is
\* stored was stored before it.
start_camera_launch_new(h) == start_camera_launch_in(h, [stream EXCEPT !.fresh = FALSE])

\* ---------------------------------------------------------------- stop_camera
stop_camera_Unguarded(h) ==
    /\ stops[h].pc = "idle"
    /\ stopped' = TRUE
    /\ frame_thread_active' = FALSE
    /\ stops' = [stops EXCEPT ![h] = [pc |-> "join"]]
    /\ threads' = IF stopped THEN threads
                  ELSE [t \in ThreadIds |-> [threads[t] EXCEPT !.pubs = 0]]
    /\ UNCHANGED <<gazeVars, trackerVars, now, historyVars, cap, camera_active, tracking_active,
                   current_frame, frame_lock, last_detection_result, frame_thread,
                   starts, reply>>
    /\ UNCHANGED feedVars

\* if self.camera_active: self.frame_thread_active = False ... else the reply
stop_camera(h) ==
    /\ stops[h].pc = "idle"
    /\ stopped' = TRUE
    /\ IF camera_active
       THEN /\ frame_thread_active' = FALSE
            /\ stops' = [stops EXCEPT ![h] = [pc |-> "join"]]
            /\ UNCHANGED reply
       ELSE /\ reply' = Reply("stop_camera", TRUE, 200)
            /\ UNCHANGED <<frame_thread_active, stops>>
    /\ threads' = IF stopped THEN threads
                  ELSE [t \in ThreadIds |-> [threads[t] EXCEPT !.pubs = 0]]
    /\ UNCHANGED <<gazeVars, trackerVars, now, historyVars, cap, camera_active, tracking_active,
                   current_frame, frame_lock, last_detection_result, frame_thread,
                   starts>>
    /\ UNCHANGED feedVars

\* if self.frame_thread: self.frame_thread.join(timeout=1): the thread has
\* ended or the second has passed; then if self.cap: self.cap.release()
stop_camera_join(h) ==
    /\ stops[h].pc = "join"
    /\ cap' = IF cap = "none" THEN "none" ELSE "closed"
    /\ stops' = [stops EXCEPT ![h] = [pc |-> "clear"]]
    /\ UNCHANGED <<gazeVars, trackerVars, now, historyVars, camera_active, tracking_active,
                   current_frame, frame_lock, last_detection_result, frame_thread,
                   frame_thread_active, threads, starts, reply, stopped>>
    /\ UNCHANGED feedVars

\* self.camera_active = False; self.tracking_active = False; self.cap = None
stop_camera_clear(h) ==
    /\ stops[h].pc = "clear"
    /\ camera_active' = FALSE
    /\ tracking_active' = FALSE
    /\ cap' = "none"
    /\ stops' = [stops EXCEPT ![h] = IdleStop]
    /\ reply' = Reply("stop_camera", TRUE, 200)
    /\ UNCHANGED <<gazeVars, trackerVars, now, historyVars, current_frame, frame_lock,
                   last_detection_result, frame_thread, frame_thread_active,
                   threads, starts, stopped>>
    /\ UNCHANGED feedVars

\* ------------------------------------------------ start_tracking, stop_tracking
start_tracking ==
    /\ IF camera_active
       THEN tracking_active' = TRUE /\ reply' = Reply("start_tracking", TRUE, 200)
       ELSE UNCHANGED tracking_active /\ reply' = Reply("start_tracking", FALSE, 400)
    /\ UNCHANGED <<gazeVars, trackerVars, now, historyVars, cap, camera_active, current_frame,
                   frame_lock, last_detection_result, frame_thread,
                   frame_thread_active, threads, starts, stops, stopped>>
    /\ UNCHANGED feedVars

stop_tracking ==
    /\ tracking_active' = FALSE
    /\ reply' = Reply("stop_tracking", TRUE, 200)
    /\ UNCHANGED <<gazeVars, trackerVars, now, historyVars, cap, camera_active, current_frame,
                   frame_lock, last_detection_result, frame_thread,
                   frame_thread_active, threads, starts, stops, stopped>>
    /\ UNCHANGED feedVars

\* ----------------------------------------------------------- get_enhanced_gaze
\* jsonify({'success': True, 'face_detected': False}), and jsonify(None),
\* whose body is the JSON text null.
NoFaceBody == [success |-> TRUE, face_detected |-> FALSE]
NullBody == [null |-> TRUE]
jsonify(value) == IF value = None THEN NullBody ELSE value

\* if not self.tracking_active or self.last_detection_result is None:
\*     return jsonify({'success': True, 'face_detected': False})
ServeDefault_ResultOnly == last_detection_result = None

ServeDefault == ~tracking_active \/ last_detection_result = None

get_enhanced_gaze ==
    /\ poll.pc = "idle"
    /\ IF ServeDefault
       THEN gaze' = NoFaceBody /\ UNCHANGED poll
       ELSE poll' = [poll EXCEPT !.pc = "return"] /\ UNCHANGED gaze
    /\ UNCHANGED <<trackerVars, now, historyVars, serverVars, threads, handlerVars,
                   feedVars>>

\* return jsonify(self.last_detection_result): the attribute is read again
get_enhanced_gaze_return ==
    /\ poll.pc = "return"
    /\ gaze' = jsonify(last_detection_result)
    /\ poll' = IdlePoll
    /\ UNCHANGED <<trackerVars, now, historyVars, serverVars, threads, handlerVars,
                   feedVars>>

\* ------------------------------------------------------------------ video_feed
\* return Response(generate_frames(), ...)
video_feed ==
    /\ stream.pc = "idle"
    /\ stream' = [stream EXCEPT !.pc = "loop"]
    /\ UNCHANGED <<trackerVars, now, historyVars, serverVars, threads, handlerVars,
                   gazeVars>>

\* while self.camera_active: frame_to_send = None; else the generator ends
feed_loop ==
    /\ stream.pc = "loop"
    /\ stream' = IF camera_active
                 THEN [stream EXCEPT !.pc = "copy", !.frame = None]
                 ELSE [stream EXCEPT !.pc = "idle", !.frame = None, !.last = 0]
    /\ UNCHANGED <<trackerVars, now, historyVars, serverVars, threads, handlerVars,
                   gazeVars>>

\* with self.frame_lock:
\*     if self.current_frame is not None: frame_to_send = self.current_frame
feed_copy ==
    /\ stream.pc = "copy"
    /\ frame_lock = 0
    /\ stream' = IF current_frame # None
                 THEN [stream EXCEPT !.pc = "yield", !.frame = current_frame,
                                     !.last = stream.cur]
                 ELSE [stream EXCEPT !.pc = "loop"]
    /\ UNCHANGED <<trackerVars, now, historyVars, serverVars, threads, handlerVars,
                   gazeVars>>

\* cv2.imencode and the yield, outside the lock; then time.sleep(0.033), or
\* the consumer has gone away and the generator is closed.
feed_yield ==
    /\ stream.pc = "yield"
    /\ \E closed \in BOOLEAN :
        stream' = IF closed THEN [stream EXCEPT !.pc = "idle", !.frame = None, !.last = 0]
                  ELSE [stream EXCEPT !.pc = "loop"]
    /\ UNCHANGED <<trackerVars, now, historyVars, serverVars, threads, handlerVars,
                   gazeVars>>

Init == now = 0 /\ TrackerInit /\ face_mesh /\ HistoryInit /\ ServerInit

Next ==
    \/ \E t \in ThreadIds : while_check(t) \/ cap_read(t) \/ detect(t) \/ publish(t)
    \/ \E t \in ThreadIds : detect_raises(t)
    \/ \E h \in StartIds : start_camera(h) \/ start_camera_open(h) \/ start_camera_launch(h)
    \/ \E h \in StopIds : stop_camera(h) \/ stop_camera_join(h) \/ stop_camera_clear(h)
    \/ start_tracking
    \/ stop_tracking

Spec == Init /\ [][Next]_vars

\* ------------------------------------------------ the tracker on its own
InitTracker == now = 0 /\ TrackerInit /\ HistoryInit /\ ServerInit

NextTracker == FeedFrame

SpecTracker == InitTracker /\ [][NextTracker]_vars

NextTrackerTimed == FeedFrameTimed

NextEar == FeedLandmarks

SpecEar == InitTracker /\ [][NextEar]_vars

SpecTrackerTimed == InitTracker /\ [][NextTrackerTimed]_vars

\* ------------------------------------ the server polled for its detection result
\* The camera delivers a frame on every read of an open handle.
Delivers(t) == threads'[t].failed_reads = 0 /\ camera_active' = camera_active

NextPoll ==
    \/ \E t \in ThreadIds : while_check(t) \/ detect(t) \/ detect_raises(t) \/ publish(t)
    \/ \E t \in ThreadIds : cap_read(t) /\ Delivers(t)
    \/ \E h \in StartIds : start_camera(h) \/ start_camera_open(h) \/ start_camera_launch(h)
    \/ \E h \in StopIds : stop_camera(h) \/ stop_camera_join(h) \/ stop_camera_clear(h)
    \/ start_tracking
    \/ stop_tracking
    \/ get_enhanced_gaze
    \/ get_enhanced_gaze_return

SpecPoll == Init /\ [][NextPoll]_vars

\* The same server polled over several camera sessions, with the history of
\* the session the stored result belongs to.
NextSession ==
    \/ \E t \in ThreadIds : while_check(t) \/ detect_fresh(t) \/ publish(t)
    \/ \E t \in ThreadIds : cap_read(t) /\ Delivers(t)
    \/ \E h \in StartIds : start_camera(h) \/ start_camera_open(h)
                           \/ start_camera_launch_new(h)
    \/ \E h \in StopIds : stop_camera(h) \/ stop_camera_join(h) \/ stop_camera_clear(h)
    \/ start_tracking
    \/ stop_tracking
    \/ get_enhanced_gaze
    \/ get_enhanced_gaze_return

SpecSession == Init /\ [][NextSession]_vars

\* ------------------------------------------------- the server with a video stream
NextFeed ==
    \/ \E t \in ThreadIds : while_check(t) \/ detect(t) \/ publish(t)
    \/ \E t \in ThreadIds : cap_read(t) /\ Delivers(t)
    \/ \E h \in StartIds : start_camera(h) \/ start_camera_open(h) \/ start_camera_launch(h)
    \/ \E h \in StopIds : stop_camera(h) \/ stop_camera_join(h) \/ stop_camera_clear(h)
    \/ video_feed
    \/ feed_loop
    \/ feed_copy
    \/ feed_yield

SpecFeed == Init /\ [][NextFeed]_vars

\* -------------------------------------------------------------------
\* EnhancedEyeTrackingServer
\* (src/attached_assets/enhanced_eye_tracking_server_1760500557428.py)
\* -------------------------------------------------------------------
\* What the camera delivers to this server.
ClosedFaceFrame == [face |-> TRUE, ear |-> 5, pose |-> [ok |-> TRUE, sy_ok |-> TRUE, yaw |-> 5]]
CameraFrames == {NoFaceFrame, ClosedFaceFrame, OpenFaceFrame}

\* The frames the server hands to the tracker stay in the server's bounds.
aa_InBounds(frame) ==
    face_mesh /\ frame.face =>
        /\ IsClosed(frame.ear) => ear_counter < MaxServerRun
        /\ ~IsClosed(frame.ear) => total_blinks < MaxServerBlinks

\* self.eye_tracker.process_frame(frame, ...) called from this server; the
\* call reads the clock at t1 and at t2.
aa_process_frame(frame, t1, t2) ==
    /\ t2 <= MaxServerTime
    /\ aa_InBounds(frame)
    /\ now' = t2
    /\ process_frame(frame, t1, t2, process_frame_return(frame, t1, t2))
    /\ UNCHANGED historyVars

\* The consumer's tracking session ends: the response it held is forgotten.
EndSession == gaze' = None

\* The attempts of start_camera and start_tracking over backends and indices:
\* one opens and reads a test frame, or the last one does not open, or the
\* last one opens and fails the test read.
CameraAttempts == {"started", "unopened", "unread"}

\* self.camera_active = True; self.frame_thread_active = True; Thread(...).start()
aa_launch ==
    /\ Cardinality(Running) < MaxLoopThreads
    /\ \E t \in ThreadIds :
        /\ ~Alive(t)
        /\ \A u \in ThreadIds : u < t => Alive(u)
        /\ threads' = [threads EXCEPT ![t] = [DeadThread EXCEPT !.pc = "while"]]
        /\ frame_thread' = t
    /\ cap' = "open"
    /\ camera_active' = TRUE
    /\ frame_thread_active' = TRUE

\* start_camera
aa_start_camera ==
    /\ IF camera_active
       THEN /\ reply' = Reply("start_camera", TRUE, 200)
            /\ UNCHANGED <<cap, camera_active, frame_thread, frame_thread_active, threads>>
       ELSE \E attempt \in CameraAttempts :
            IF attempt = "started"
            THEN /\ aa_launch
                 /\ reply' = Reply("start_camera", TRUE, 200)
            ELSE /\ cap' = IF attempt = "unread" THEN "none" ELSE "closed"
                 /\ reply' = Reply("start_camera", FALSE, 200)
                 /\ UNCHANGED <<camera_active, frame_thread, frame_thread_active, threads>>
    /\ UNCHANGED <<trackerVars, now, historyVars, tracking_active, current_frame,
                   frame_lock, last_detection_result, starts, stops, stopped, gazeVars>>
    /\ UNCHANGED feedVars

\* stop_camera, up to the join: the flags are cleared, or the camera is
\* already stopped.
aa_stop_camera(h) ==
    /\ stops[h].pc = "idle"
    /\ IF camera_active
       THEN /\ camera_active' = FALSE
            /\ tracking_active' = FALSE
            /\ frame_thread_active' = FALSE
            /\ stops' = [stops EXCEPT ![h] = [pc |-> "join"]]
            /\ EndSession
            /\ UNCHANGED reply
       ELSE /\ reply' = Reply("stop_camera", TRUE, 200)
            /\ UNCHANGED <<camera_active, tracking_active, frame_thread_active, stops,
                           gaze>>
    /\ UNCHANGED <<trackerVars, now, historyVars, cap, current_frame, frame_lock,
                   last_detection_result, frame_thread, threads, starts, stopped,
                   poll>>
    /\ UNCHANGED feedVars

\* self.frame_thread.join(timeout=1) has returned: if self.cap:
\* self.cap.release(); self.cap = None
aa_stop_camera_release(h) ==
    /\ stops[h].pc = "join"
    /\ cap' = "none"
    /\ stops' = [stops EXCEPT ![h] = IdleStop]
    /\ reply' = Reply("stop_camera", TRUE, 200)
    /\ UNCHANGED <<trackerVars, now, historyVars, camera_active, tracking_active,
                   current_frame, frame_lock, last_detection_result, frame_thread,
                   frame_thread_active, threads, starts, stopped, gazeVars>>
    /\ UNCHANGED feedVars

\* start_tracking: starts the camera first when it is not active
aa_start_tracking ==
    /\ IF camera_active
       THEN /\ tracking_active' = TRUE
            /\ reply' = Reply("start_tracking", TRUE, 200)
            /\ UNCHANGED <<cap, camera_active, frame_thread, frame_thread_active, threads>>
       ELSE \E attempt \in CameraAttempts :
            IF attempt = "started"
            THEN /\ aa_launch
                 /\ tracking_active' = TRUE
                 /\ reply' = Reply("start_tracking", TRUE, 200)
            ELSE /\ cap' = "closed"
                 /\ reply' = Reply("start_tracking", FALSE, 500)
                 /\ UNCHANGED <<tracking_active, camera_active, frame_thread,
                                frame_thread_active, threads>>
    /\ UNCHANGED <<trackerVars, now, historyVars, current_frame, frame_lock,
                   last_detection_result, starts, stops, stopped, gazeVars>>
    /\ UNCHANGED feedVars

\* stop_tracking
aa_stop_tracking ==
    /\ tracking_active' = FALSE
    /\ reply' = Reply("stop_tracking", TRUE, 200)
    /\ EndSession
    /\ UNCHANGED <<trackerVars, now, historyVars, cap, camera_active, current_frame,
                   frame_lock, last_detection_result, frame_thread,
                   frame_thread_active, threads, starts, stops, stopped, poll>>
    /\ UNCHANGED feedVars

\* reset_session: EnhancedEyeTracker defines no reset_session, the call raises
\* AttributeError and the handler answers with the exception's message, 500.
aa_reset_session ==
    /\ reply' = Reply("reset_session", FALSE, 500)
    /\ EndSession
    /\ UNCHANGED <<trackerVars, now, historyVars, serverVars, threads, starts, stops,
                   stopped, poll>>
    /\ UNCHANGED feedVars

\* ------------------------------------------------------------ _read_frames
\* while self.frame_thread_active and self.camera_active, then
\* if self.cap and self.cap.isOpened(), else sleep
aa_while_check(t) ==
    /\ threads[t].pc = "while"
    /\ threads' = [threads EXCEPT ![t] =
            IF ~(frame_thread_active /\ camera_active) THEN DeadThread
            ELSE IF cap # "open" THEN @
            ELSE [@ EXCEPT !.pc = "read"]]
    /\ UNCHANGED <<trackerVars, now, historyVars, serverVars, handlerVars, gazeVars>>
    /\ UNCHANGED feedVars

\* capture_result = self.cap.read(): a frame, or no frame; a handle set to
\* None or released since the check gives no frame (the AttributeError is
\* caught inside the loop).
aa_cap_read(t) ==
    /\ threads[t].pc = "read"
    /\ \E ok \in BOOLEAN, frame \in CameraFrames :
        threads' = [threads EXCEPT ![t] =
            IF cap = "open" /\ ok
            THEN [@ EXCEPT !.pc = "acquire", !.frame = frame]
            ELSE [@ EXCEPT !.pc = "while"]]
    /\ UNCHANGED <<trackerVars, now, historyVars, serverVars, handlerVars, gazeVars>>
    /\ UNCHANGED feedVars

\* with self.frame_lock: the loop has the lock once it is free
aa_acquire(t) ==
    /\ threads[t].pc = "acquire"
    /\ frame_lock = 0
    /\ frame_lock' = t
    /\ threads' = [threads EXCEPT ![t] = [@ EXCEPT !.pc = "process"]]
    /\ UNCHANGED <<trackerVars, now, historyVars, cap, camera_active, tracking_active,
                   current_frame, last_detection_result, frame_thread,
                   frame_thread_active, handlerVars, gazeVars, feedVars>>

\* if self.tracking_active and self.eye_tracker: (the tracker is always there)
ShouldProcess_Always == TRUE
ShouldProcess == tracking_active

\* result = self.eye_tracker.process_frame(frame, ...), under the lock
aa_process(t) ==
    /\ threads[t].pc = "process"
    /\ frame_lock = t
    /\ UNCHANGED frame_lock
    /\ threads' = [threads EXCEPT ![t] = [@ EXCEPT !.pc = "publish"]]
    /\ IF ShouldProcess
       THEN \E d1 \in Elapsed, d2 \in Elapsed :
                aa_process_frame(threads[t].frame, now + d1, now + d1 + d2)
       ELSE UNCHANGED <<trackerVars, now, historyVars>>
    /\ UNCHANGED <<cap, camera_active, tracking_active, current_frame,
                   last_detection_result, frame_thread, frame_thread_active,
                   handlerVars, gazeVars>>
    /\ UNCHANGED feedVars

\* self.current_frame = frame.copy(), and the lock is released
aa_publish(t) ==
    /\ threads[t].pc = "publish"
    /\ frame_lock = t
    /\ current_frame' = threads[t].frame
    /\ frame_lock' = 0
    /\ threads' = [threads EXCEPT ![t] = [@ EXCEPT !.pc = "while", !.frame = None]]
    /\ UNCHANGED <<trackerVars, now, historyVars, cap, camera_active, tracking_active,
                   last_detection_result, frame_thread, frame_thread_active,
                   handlerVars, gazeVars>>
    /\ UNCHANGED feedVars

\* -------------------------------------------------------- get_enhanced_gaze
\* if not self.tracking_active or self.current_frame is None: the default
aa_get_enhanced_gaze ==
    /\ poll.pc = "idle"
    /\ IF ~tracking_active \/ current_frame = None
       THEN /\ gaze' = [success |-> TRUE, face_detected |-> FALSE,
                        is_diverted |-> TRUE, is_drowsy |-> FALSE]
            /\ UNCHANGED poll
       ELSE /\ poll' = [poll EXCEPT !.pc = "copy"]
            /\ UNCHANGED gaze
    /\ UNCHANGED <<trackerVars, now, historyVars, serverVars, threads, handlerVars>>
    /\ UNCHANGED feedVars

\* with self.frame_lock: frame_copy = self.current_frame.copy()
aa_get_enhanced_gaze_copy ==
    /\ poll.pc = "copy"
    /\ frame_lock = 0
    /\ poll' = [pc |-> "process", frame |-> current_frame]
    /\ UNCHANGED <<trackerVars, now, historyVars, serverVars, threads, handlerVars,
                   gaze>>
    /\ UNCHANGED feedVars

\* result = self.eye_tracker.process_frame(frame_copy, None, [640, 480]) and
\* the response built from it
aa_get_enhanced_gaze_process ==
    /\ poll.pc = "process"
    /\ \E d1 \in Elapsed, d2 \in Elapsed :
        LET out == process_frame_return(poll.frame, now + d1, now + d1 + d2) IN
        /\ aa_process_frame(poll.frame, now + d1, now + d1 + d2)
        /\ gaze' = [success |-> TRUE,
                    face_detected |-> Get(out, "face_detected", FALSE),
                    is_diverted |-> Get(out, "is_diverted", TRUE),
                    is_drowsy |-> Get(out, "is_drowsy", FALSE),
                    blink_count |-> Get(out, "blink_count", 0)]
    /\ poll' = IdlePoll
    /\ UNCHANGED <<serverVars, threads, handlerVars>>
    /\ UNCHANGED feedVars

\* ----------------------------------------------------------------- video_feed
\* The value frame_lock has while a video_feed generator holds it.
FeedLock == MaxThreads + 1

\* video_feed: the response starts generate_frames; its wait for a first frame
\* (at most 30 sleeps) touches nothing shared.
aa_video_feed ==
    /\ stream.pc = "idle"
    /\ stream' = [stream EXCEPT !.pc = "loop"]
    /\ UNCHANGED <<trackerVars, now, historyVars, serverVars, threads, handlerVars,
                   gazeVars>>

\* while self.camera_active: the generator ends, or goes on to take the lock
StreamGoesOn_Always == TRUE

StreamGoesOn == camera_active

aa_feed_loop ==
    /\ stream.pc = "loop"
    /\ stream' = IF StreamGoesOn THEN [stream EXCEPT !.pc = "lock"] ELSE IdleStream
    /\ UNCHANGED <<trackerVars, now, historyVars, serverVars, threads, handlerVars,
                   gazeVars>>

\* with self.frame_lock:
aa_feed_acquire ==
    /\ stream.pc = "lock"
    /\ frame_lock = 0
    /\ frame_lock' = FeedLock
    /\ stream' = [stream EXCEPT !.pc = "encode"]
    /\ UNCHANGED <<trackerVars, now, historyVars, cap, camera_active, tracking_active,
                   current_frame, last_detection_result, frame_thread,
                   frame_thread_active, threads, handlerVars, gazeVars>>

\* ret, buffer = cv2.imencode('.jpg', self.current_frame), or of a blank frame
\* when there is none; if ret, the generator yields inside the with block,
\* else the block ends and the lock is released.
aa_feed_encode ==
    /\ stream.pc = "encode"
    /\ \E ret \in BOOLEAN :
        IF ret
        THEN /\ stream' = [stream EXCEPT !.pc = "yield"]
             /\ UNCHANGED frame_lock
        ELSE /\ stream' = [stream EXCEPT !.pc = "loop"]
             /\ frame_lock' = 0
    /\ UNCHANGED <<trackerVars, now, historyVars, cap, camera_active, tracking_active,
                   current_frame, last_detection_result, frame_thread,
                   frame_thread_active, threads, handlerVars, gazeVars>>

\* The consumer has taken the chunk and asks for the next one, or has gone
\* away (GeneratorExit at the yield): the with block ends, the lock is released.
aa_feed_resume ==
    /\ stream.pc = "yield"
    /\ frame_lock' = 0
    /\ \E closed \in BOOLEAN :
        stream' = IF closed THEN IdleStream ELSE [stream EXCEPT !.pc = "loop"]
    /\ UNCHANGED <<trackerVars, now, historyVars, cap, camera_active, tracking_active,
                   current_frame, last_detection_result, frame_thread,
                   frame_thread_active, threads, handlerVars, gazeVars>>

InitAttached == now = 0 /\ TrackerInit /\ HistoryInit /\ ServerInit

NextAttached ==
    \/ \E t \in ThreadIds : aa_while_check(t) \/ aa_cap_read(t) \/ aa_acquire(t)
                            \/ aa_process(t) \/ aa_publish(t)
    \/ aa_start_camera
    \/ \E h \in StopIds : aa_stop_camera(h) \/ aa_stop_camera_release(h)
    \/ aa_start_tracking
    \/ aa_stop_tracking
    \/ aa_reset_session
    \/ aa_get_enhanced_gaze
    \/ aa_get_enhanced_gaze_copy
    \/ aa_get_enhanced_gaze_process

SpecAttached == InitAttached /\ [][NextAttached]_vars

\* The attached_assets server polled while it tracks: start_tracking starts
\* the camera with tracking on and nothing stops either, so the loop runs
\* every frame it publishes through process_frame.
NextAttachedPoll ==
    \/ \E t \in ThreadIds : aa_while_check(t) \/ aa_cap_read(t) \/ aa_acquire(t)
                            \/ aa_process(t) \/ aa_publish(t)
    \/ aa_start_tracking
    \/ aa_get_enhanced_gaze
    \/ aa_get_enhanced_gaze_copy
    \/ aa_get_enhanced_gaze_process

SpecAttachedPoll == InitAttached /\ [][NextAttachedPoll]_vars

\* The attached_assets server with its video_feed stream and no polling.
NextAttachedFeed ==
    \/ \E t \in ThreadIds : aa_while_check(t) \/ aa_cap_read(t) \/ aa_acquire(t)
                            \/ aa_process(t) \/ aa_publish(t)
    \/ aa_start_camera
    \/ \E h \in StopIds : aa_stop_camera(h) \/ aa_stop_camera_release(h)
    \/ aa_start_tracking
    \/ aa_stop_tracking
    \/ aa_video_feed
    \/ aa_feed_loop
    \/ aa_feed_acquire
    \/ aa_feed_encode
    \/ aa_feed_resume

SpecAttachedFeed == InitAttached /\ [][NextAttachedFeed]_vars

\* The attached_assets server's camera and loop under a fair scheduler: a
\* loop thread that can take a step takes one (its sleeps end); requests
\* come or do not come.
NextAttachedLoop ==
    \/ \E t \in ThreadIds : aa_while_check(t) \/ aa_cap_read(t) \/ aa_acquire(t)
                            \/ aa_process(t) \/ aa_publish(t)
    \/ aa_start_camera
    \/ \E h \in StopIds : aa_stop_camera(h) \/ aa_stop_camera_release(h)
    \/ aa_video_feed
    \/ aa_feed_loop
    \/ aa_feed_acquire
    \/ aa_feed_encode
    \/ aa_feed_resume

LoopFairness ==
    \A t \in ThreadIds :
        WF_vars(aa_while_check(t) \/ aa_cap_read(t) \/ aa_acquire(t)
                \/ aa_process(t) \/ aa_publish(t))

SpecAttachedLoop == InitAttached /\ [][NextAttachedLoop]_vars /\ LoopFairness

\* The same, with a consumer that keeps reading the stream or closes it: a
\* generator that can take a step takes one.
StreamFairness ==
    WF_vars(aa_feed_loop \/ aa_feed_acquire \/ aa_feed_encode \/ aa_feed_resume)

SpecAttachedStream ==
    InitAttached /\ [][NextAttachedLoop]_vars /\ LoopFairness /\ StreamFairness

\* -------------------------------------------------------------------
\* EyeTrackingServer (src/server/eye_tracking_server.py)
\* -------------------------------------------------------------------
\* start_camera: if self.camera_active: return 'Camera already active'
ets_start_camera(h) ==
    /\ starts[h].pc = "idle"
    /\ IF camera_active
       THEN /\ reply' = Reply("start_camera", TRUE, 200)
            /\ UNCHANGED starts
       ELSE /\ starts' = [starts EXCEPT ![h] = [@ EXCEPT !.pc = "open"]]
            /\ UNCHANGED reply
    /\ UNCHANGED <<trackerVars, now, historyVars, serverVars, threads, stops, stopped,
                   gazeVars, feedVars>>

\* start_tracking: if not self.camera_active: the camera is opened first
ets_start_tracking(h) ==
    /\ starts[h].pc = "idle"
    /\ starts' = [starts EXCEPT ![h] =
            [@ EXCEPT !.pc = IF camera_active THEN "t_track" ELSE "t_open"]]
    /\ UNCHANGED <<trackerVars, now, historyVars, serverVars, threads, stops, reply,
                   stopped, gazeVars, feedVars>>

\* self.cap = cv2.VideoCapture(0); if not self.cap.isOpened(): return ..., 500
\* (the handle that did not open stays in self.cap)
ets_open(h) ==
    /\ starts[h].pc \in {"open", "t_open"}
    /\ \E opened \in BOOLEAN :
        IF opened
        THEN /\ cap' = "open"
             /\ starts' = [starts EXCEPT ![h] =
                    [@ EXCEPT !.pc = IF @ = "open" THEN "launch" ELSE "t_launch"]]
             /\ UNCHANGED reply
        ELSE /\ cap' = "closed"
             /\ starts' = [starts EXCEPT ![h] = IdleStart]
             /\ reply' = Reply(IF starts[h].pc = "open" THEN "start_camera"
                               ELSE "start_tracking", FALSE, 500)
    /\ UNCHANGED <<trackerVars, now, historyVars, camera_active, tracking_active,
                   current_frame, frame_lock, last_detection_result, frame_thread,
                   frame_thread_active, threads, stops, stopped, gazeVars, feedVars>>

\* self.camera_active = True; self.frame_thread_active = True;
\* self.frame_thread = threading.Thread(target=self._read_frames); start()
ets_launch(h) ==
    /\ starts[h].pc \in {"launch", "t_launch"}
    /\ \E t \in ThreadIds :
        /\ ~Alive(t)
        /\ \A u \in ThreadIds : u < t => Alive(u)
        /\ threads' = [threads EXCEPT ![t] = [DeadThread EXCEPT !.pc = "while"]]
        /\ frame_thread' = t
    /\ camera_active' = TRUE
    /\ frame_thread_active' = TRUE
    /\ IF starts[h].pc = "launch"
       THEN /\ starts' = [starts EXCEPT ![h] = IdleStart]
            /\ reply' = Reply("start_camera", TRUE, 200)
       ELSE /\ starts' = [starts EXCEPT ![h] = [@ EXCEPT !.pc = "t_track"]]
            /\ UNCHANGED reply
    /\ UNCHANGED <<trackerVars, now, historyVars, cap, tracking_active, current_frame,
                   frame_lock, last_detection_result, stops, stopped, gazeVars,
                   feedVars>>

\* self.tracking_active = True; return 'Tracking started'
ets_track(h) ==
    /\ starts[h].pc = "t_track"
    /\ tracking_active' = TRUE
    /\ starts' = [starts EXCEPT ![h] = IdleStart]
    /\ reply' = Reply("start_tracking", TRUE, 200)
    /\ UNCHANGED <<trackerVars, now, historyVars, cap, camera_active, current_frame,
                   frame_lock, last_detection_result, frame_thread,
                   frame_thread_active, threads, stops, stopped, gazeVars, feedVars>>

\* stop_camera, up to the join: if self.camera_active: the flags are cleared
ets_stop_camera(h) ==
    /\ stops[h].pc = "idle"
    /\ IF camera_active
       THEN /\ camera_active' = FALSE
            /\ tracking_active' = FALSE
            /\ frame_thread_active' = FALSE
            /\ stops' = [stops EXCEPT ![h] = [pc |-> "join"]]
            /\ UNCHANGED reply
       ELSE /\ reply' = Reply("stop_camera", TRUE, 200)
            /\ UNCHANGED <<camera_active, tracking_active, frame_thread_active, stops>>
    /\ UNCHANGED <<trackerVars, now, historyVars, cap, current_frame, frame_lock,
                   last_detection_result, frame_thread, threads, starts, stopped,
                   gazeVars, feedVars>>

\* self.frame_thread.join(timeout=1) has returned:
\* if self.cap: self.cap.release(); self.cap = None
ets_stop_camera_release(h) ==
    /\ stops[h].pc = "join"
    /\ cap' = "none"
    /\ stops' = [stops EXCEPT ![h] = IdleStop]
    /\ reply' = Reply("stop_camera", TRUE, 200)
    /\ UNCHANGED <<trackerVars, now, historyVars, camera_active, tracking_active,
                   current_frame, frame_lock, last_detection_result, frame_thread,
                   frame_thread_active, threads, starts, stopped, gazeVars, feedVars>>

\* _read_frames: while self.frame_thread_active and self.camera_active, then
\* if self.cap and self.cap.isOpened(), else the sleep
ets_while_check(t) ==
    /\ threads[t].pc = "while"
    /\ threads' = [threads EXCEPT ![t] =
            IF ~(frame_thread_active /\ camera_active) THEN DeadThread
            ELSE IF cap # "open" THEN @
            ELSE [@ EXCEPT !.pc = "read"]]
    /\ UNCHANGED <<trackerVars, now, historyVars, serverVars, handlerVars, gazeVars,
                   feedVars>>

\* ret, frame = self.cap.read(); if ret: ... A handle set to None since the
\* check raises AttributeError, which nothing in the loop catches; a released
\* handle gives ret false.
ets_cap_read(t) ==
    /\ threads[t].pc = "read"
    /\ \E ok \in BOOLEAN, frame \in CapturedFrames :
        threads' = [threads EXCEPT ![t] =
            IF cap = "none" THEN DeadThread
            ELSE IF cap = "open" /\ ok THEN [@ EXCEPT !.pc = "publish", !.annotated = frame]
            ELSE [@ EXCEPT !.pc = "while"]]
    /\ UNCHANGED <<trackerVars, now, historyVars, serverVars, handlerVars, gazeVars,
                   feedVars>>

\* result = self.eye_tracker.process_frame(frame), the drawing, and
\* with self.frame_lock: self.current_frame = frame
ets_publish(t) ==
    /\ threads[t].pc = "publish"
    /\ frame_lock = 0
    /\ current_frame' = threads[t].annotated
    /\ threads' = [threads EXCEPT ![t] = [@ EXCEPT !.pc = "while", !.annotated = None]]
    /\ UNCHANGED <<trackerVars, now, historyVars, cap, camera_active, tracking_active,
                   frame_lock, last_detection_result, frame_thread,
                   frame_thread_active, handlerVars, gazeVars, feedVars>>

NextEts ==
    \/ \E t \in ThreadIds : ets_while_check(t) \/ ets_cap_read(t) \/ ets_publish(t)
    \/ \E h \in StartIds : ets_start_camera(h) \/ ets_start_tracking(h) \/ ets_open(h)
                           \/ ets_launch(h) \/ ets_track(h)
    \/ \E h \in StopIds : ets_stop_camera(h) \/ ets_stop_camera_release(h)

SpecEts == Init /\ [][NextEts]_vars

\* ---------------------------------------------------------------- claims
\* The last call was given a face-detected frame.
FaceFed == prev.called /\ face_mesh /\ fed.face
ClosedFed == FaceFed /\ fed.ear < 20
OpenFed == FaceFed /\ fed.ear >= 20

\* C1: a closure episode of at least 3 frames raises the reported blink_count
\* by exactly 1, on the open frame that ends it and on no closed frame.
C1_OneBlinkPerEpisode ==
    /\ ClosedFed => result.blink_count = prev.count
    /\ OpenFed /\ prev.run >= 3 =>
            /\ result.blink_count = prev.count + 1
            /\ result.blink_count = prev.base + 1

\* C2: the open frame that ends a closure episode of fewer than 3 frames
\* reports a blink_count no greater than the one reported before the episode.
C2_ShortClosureNoBlink ==
    OpenFed /\ prev.run \in 1..2 => result.blink_count <= prev.base

C2_Witness == OpenFed /\ prev.run = 2 /\ prev.base = 1 /\ result.blink_count = 1

\* C3: from the 15th closed frame of a closure episode on, every closed frame
\* comes back is_drowsy, and no closed frame changes blink_count.
C3_SustainedClosureDrowsy ==
    ClosedFed =>
        /\ run >= 15 => result.is_drowsy
        /\ result.blink_count = prev.count

C3_Witness ==
    /\ ClosedFed /\ run = 16 /\ result.is_drowsy /\ result.blink_count = 2
    /\ now - last_blink_time = 0

\* C4 as stated: a closure episode of at least 3 and fewer than 15 frames has
\* is_drowsy false on every one of its frames.
C4_ShortEpisodeNeverDrowsy ==
    OpenFed /\ prev.run \in 3..14 => ~prev.drowsySeen

\* C4 as amended: on a closed frame that is not yet the 15th of its run,
\* is_drowsy is true exactly when more than 60 seconds have passed since
\* last_blink_time and blink_rate is below 5.
C4_DrowsyOnlyByLowRate ==
    ClosedFed /\ run < 15 =>
        (result.is_drowsy <=> (now - last_blink_time > 60 /\ blink_rate < 5))

C4_Witness ==
    /\ ClosedFed /\ run = 14 /\ ~result.is_drowsy
    /\ now - last_blink_time > 60 /\ blink_rate = 5

\* C8: at most one _read_frames thread runs at any time, whatever the
\* interleaving of start_camera and stop_camera requests.
C8_SingleLoopThread == Cardinality(Running) <= 1

\* C9: once a stop_camera request has been issued and no start_camera request
\* is issued after it (none is in progress either), no loop publishes more
\* than one further frame, and once the stop handler has answered, the capture
\* handle is released.
C9_StopObservedAndReleased ==
    stopped =>
        /\ \A t \in ThreadIds : threads[t].pubs <= 1
        /\ /\ reply.route = "stop_camera"
           /\ \A h \in StopIds : stops[h].pc = "idle"
           /\ \A h \in StartIds : starts[h].pc = "idle"
           => cap # "open"

\* C10: a stop_camera request that finds the camera inactive leaves
\* camera_active, tracking_active, frame_thread_active, cap, current_frame and
\* last_detection_result as they are and answers with success.
C10_StopWhenInactiveIsNoOp ==
    [][\A h \in StopIds :
         (~camera_active /\ stop_camera(h)) =>
            /\ UNCHANGED <<camera_active, tracking_active, frame_thread_active, cap,
                           current_frame, last_detection_result>>
            /\ reply' = Reply("stop_camera", TRUE, 200)]_vars

C10_Witness ==
    /\ reply = Reply("stop_camera", TRUE, 200)
    /\ \A h \in StopIds : stops[h].pc = "idle"
    /\ \A h \in StartIds : starts[h].pc = "idle"
    /\ ~camera_active /\ tracking_active /\ frame_thread_active /\ cap = "open"
    /\ current_frame # None /\ last_detection_result # None
\* The last step wrote the tracker's blink state.
TrackerWritten ==
    <<ear_counter, total_blinks, blink_rate, last_blink_time>>' #
        <<ear_counter, total_blinks, blink_rate, last_blink_time>>

\* C5: within one tracking session, no get_enhanced_gaze response carries a
\* blink_count smaller than the one the response before it carried.
C5_BlinkCountNonDecreasing ==
    [][("blink_count" \in DOMAIN gaze /\ "blink_count" \in DOMAIN gaze') =>
            gaze'.blink_count >= gaze.blink_count]_vars

\* C6: a reset_session request succeeds and leaves ear_counter, total_blinks
\* and blink_rate at 0 and last_blink_time at the time of the reset.
C6_ResetZeroesCounters ==
    [][aa_reset_session =>
            /\ reply'.success
            /\ ear_counter' = 0 /\ total_blinks' = 0 /\ blink_rate' = 0
            /\ last_blink_time' = now']_vars

\* C7: every step that writes ear_counter, total_blinks, blink_rate or
\* last_blink_time is a step of a _read_frames thread.
C7_OnlyLoopWritesTracker ==
    [][TrackerWritten => \E t \in ThreadIds : aa_process(t)]_vars
\* A _read_frames thread or a reader is waiting for frame_lock.
LoopWaits == \E t \in ThreadIds : threads[t].pc = "acquire" /\ frame_lock # 0
ReaderWaits == (poll.pc = "copy" \/ stream.pc = "lock") /\ frame_lock # 0
\* The lock is held across an encoding or a yield, or across detection.
ReaderHoldsAcrossIO == frame_lock = FeedLock /\ stream.pc \in {"encode", "yield"}
LoopHoldsAcrossDetection ==
    \E t \in ThreadIds : frame_lock = t /\ threads[t].pc = "process" /\ tracking_active

\* C11: nobody waits for frame_lock while a reader holds it across JPEG
\* encoding or a generator yield, or while the loop holds it across detection.
C11_LockHeldOnlyForCopy ==
    (LoopWaits \/ ReaderWaits) => ~(ReaderHoldsAcrossIO \/ LoopHoldsAcrossDetection)

\* C12: a read of the detection result never sends a null body: what
\* get_enhanced_gaze sends is the no-face default or a result that
\* process_and_draw_frame produced.
C12_ReadNeverNull ==
    gaze \in {None, NoFaceBody}
             \cup {process_and_draw_frame(f, b) : f \in CapturedFrames, b \in BOOLEAN}

\* C13: the detection result and the frame that readers can see belong to the
\* same loop iteration: a stored result of a successful detection says
\* whether the stored frame shows a face.
C13_ResultMatchesFrame ==
    (last_detection_result # None /\ current_frame # None
            /\ last_detection_result.success) =>
        last_detection_result = process_and_draw_frame(current_frame, FALSE)

GivesUp(t) == threads'[t].pc = "dead" /\ cap # "none"

\* C15: the loop gives up exactly at its tenth consecutive failed read and
\* then clears camera_active; a successful read starts the count again, and a
\* thread launched by start_camera starts at 0.
C15_StopsAtTenthFailure ==
    [][/\ \A t \in ThreadIds : cap_read(t) =>
            /\ GivesUp(t) <=> (threads'[t].streak = threads[t].streak + 1
                                /\ threads[t].streak + 1 = 10)
            /\ GivesUp(t) => ~camera_active'
            /\ threads'[t].pc = "detect" => threads'[t].failed_reads = 0
       /\ \A h \in StartIds : start_camera_launch(h) =>
            threads'[frame_thread'].failed_reads = 0]_vars

C15_Witness ==
    \E t \in ThreadIds :
        threads[t].pc = "dead" /\ threads[t].streak = 10 /\ ~camera_active

\* C16: a loop thread that is about to call self.cap.read() holds a handle
\* that no request handler has released or set to None.
C16_LoopReadsOpenHandle ==
    \A t \in ThreadIds : threads[t].pc = "read" => cap = "open"

\* C17: the response built from a frame without a face says face_detected
\* false, is_diverted true, is_drowsy false, and carries the blink count the
\* tracker had before the frame.
C17_NoFaceCarriesCount ==
    [][(aa_get_enhanced_gaze_process /\ ~poll.frame.face) =>
            /\ ~gaze'.face_detected /\ gaze'.is_diverted /\ ~gaze'.is_drowsy
            /\ gaze'.blink_count = total_blinks]_vars

\* C18: for a frame with a face and a pose estimate, is_diverted is true
\* exactly when the yaw is more than 25 degrees to either side, and false at
\* exactly 25; for a frame without a face it is true.
C18_DivertedBeyondThreshold ==
    prev.called =>
        /\ (result.face_detected /\ fed.pose.ok /\ fed.pose.sy_ok) =>
                (result.is_diverted <=> Abs(fed.pose.yaw) > 25)
        /\ ~fed.face => result.is_diverted

FrameFails(t) ==
    \/ detect(t) /\ tracking_active /\ ~last_detection_result'.success
    \/ detect_raises(t)

\* C19: a failure of detection or of another processing step on one frame
\* leaves a face_detected = false result for that frame, and the loop thread
\* goes on with camera_active true.
C19_FrameFailureAbsorbed ==
    [][\A t \in ThreadIds : FrameFails(t) =>
            /\ threads'[t].pc = "publish"
            /\ last_detection_result' # None
            /\ ~last_detection_result'.face_detected
            /\ camera_active' = camera_active]_vars

\* C20: with tracking off the loop still publishes each frame it reads, and
\* the iteration runs no derivation and leaves the tracker's blink state as
\* it was; with tracking on again the next iteration derives (a closed-eye
\* frame is counted).
C20_TrackingOffStillPublishes ==
    [][\A t \in ThreadIds :
        /\ (aa_process(t) /\ ~tracking_active) =>
                /\ UNCHANGED trackerVars
                /\ threads'[t].pc = "publish"
                /\ threads'[t].frame = threads[t].frame
        /\ aa_publish(t) => current_frame' = threads[t].frame
        /\ (aa_process(t) /\ tracking_active /\ face_mesh
                /\ threads[t].frame.face /\ IsClosed(threads[t].frame.ear)) =>
                ear_counter' = ear_counter + 1]_vars

C20_Witness ==
    /\ camera_active /\ ~tracking_active /\ face_mesh
    /\ ear_counter = 0 /\ total_blinks = 0
    /\ \E t \in ThreadIds : threads[t].pc = "publish" /\ threads[t].frame = ClosedFaceFrame

\* A loop thread holds a frame the camera delivered.
FrameInHand == \E t \in ThreadIds : threads[t].pc \in {"acquire", "process", "publish"}

\* C21: the loop does not go on for ever with the camera reported active
\* while the source delivers no frame: again and again a frame is delivered
\* or camera_active is false.
C21_SourceGoneLoopEnds == []<>(FrameInHand \/ ~camera_active)

\* C22: no processed frame leaves the rate window un-rolled: after a frame
\* with a face, blink counted on it or not, the window start is at most 60
\* seconds old.
C22_WindowRolledWhenDue == FaceFed => now - last_blink_time <= 60

\* C23: a frame with a face that is processed less than 60 seconds after a
\* counted blink, and is not the 15th or later of a closure run, comes back
\* with is_drowsy false.
C23_NoLowRateDrowsySoonAfterBlink ==
    (FaceFed /\ run < 15 /\ prev.blinkAt >= 0 /\ now - prev.blinkAt < 60) =>
        ~result.is_drowsy

\* C24: a captured frame goes through process_frame once: when the loop has
\* processed every frame it published, a poll that finds one of them as the
\* current frame leaves the blink counters as they are.
C24_PollLeavesCounters ==
    [][aa_get_enhanced_gaze_process =>
          UNCHANGED <<ear_counter, total_blinks, blink_rate, last_blink_time>>]_vars

\* C25: when a camera session starts, the blink counters are those of a
\* fresh tracker: no closed frame, no blink and no rate.
C25_NewSessionFreshTracker ==
    [][(~camera_active /\ camera_active') =>
          /\ ear_counter' = 0
          /\ total_blinks' = 0
          /\ blink_rate' = 0]_vars

\* A loop thread of the src/server loop is in an iteration whose read gave a
\* frame, and the frame it has in hand.
Holding(t) == threads[t].pc \in {"detect", "publish"}
InHand(t) == IF threads[t].pc = "detect" THEN threads[t].frame ELSE threads[t].annotated

\* An iteration without a frame: the source is not open, or the read fails.
EmptyIteration(t) == while_check(t) \/ (cap_read(t) /\ threads'[t].pc # "detect")

\* C26: an iteration of the loop that read a frame ends by assigning that
\* frame to current_frame, and an iteration whose read fails or whose source
\* is not open leaves current_frame and last_detection_result as they are.
C26_IterationPublishesOnce ==
    [][\A t \in ThreadIds :
          /\ (Holding(t) /\ ~Holding(t)') => current_frame' = InHand(t)
          /\ EmptyIteration(t) => UNCHANGED <<current_frame, last_detection_result>>]_vars

\* The second half of C26 alone.
C26_EmptyIterationPublishesNothing ==
    [][\A t \in ThreadIds :
          EmptyIteration(t) => UNCHANGED <<current_frame, last_detection_result>>]_vars

\* The last call was given a face-detected frame whose pose estimation failed
\* or whose yaw denominator sy was below 1e-6.
PoseFailed == FaceFed /\ (~fed.pose.ok \/ ~fed.pose.sy_ok)

\* C27: a face-detected frame whose pose cannot be estimated comes back with
\* success, is_diverted true, and the blink and drowsiness step done: a closed
\* frame extends the run and is drowsy from the 15th on, an open frame ends
\* the run and counts the blink of a run of 3 or more.
C27_PoseFailureIsDiverted ==
    PoseFailed =>
        /\ result.success /\ result.face_detected /\ result.is_diverted
        /\ fed.ear < 20 =>
                /\ ear_counter = prev.run + 1
                /\ run >= 15 => result.is_drowsy
        /\ fed.ear >= 20 =>
                /\ ear_counter = 0
                /\ prev.run >= 3 =>
                        \/ result.blink_count = prev.count + 1
                        \/ result.blink_count = 0 /\ blink_rate = prev.count + 1

C27_Witness ==
    /\ PoseFailed /\ ~fed.pose.sy_ok /\ fed.ear >= 20 /\ prev.run = 3
    /\ result.is_diverted /\ result.blink_count = 1

\* The last call was given a face with measured eyes; an eye is degenerate
\* when its corners p0 and p3 coincide.
EyesFed == FaceFed /\ "left" \in DOMAIN fed
Degenerate(eye) == eye[1] = eye[4]
EarBelowTenth(eye) == 10 * calculate_ear(eye).num < calculate_ear(eye).den

\* C28 as stated: a frame with a degenerate eye is not counted as a closed
\* frame.
C28_DegenerateEyeNeverClosed ==
    (EyesFed /\ (Degenerate(fed.left) \/ Degenerate(fed.right))) =>
        fed.ear >= 20 /\ ear_counter = 0

\* C28 as amended: no eye divides by zero; a frame whose two eyes are
\* degenerate has avg_ear 0.3 and is not counted closed; a frame with one
\* degenerate eye is counted closed exactly when the other eye's ratio is
\* below 0.10.
C28_DegenerateEyeReadsOpen ==
    EyesFed =>
        /\ calculate_ear(fed.left).den > 0 /\ calculate_ear(fed.right).den > 0
        /\ (Degenerate(fed.left) /\ Degenerate(fed.right)) =>
                fed.ear = 30 /\ ear_counter = 0
        /\ (Degenerate(fed.left) /\ ~Degenerate(fed.right)) =>
                (ear_counter > 0 <=> EarBelowTenth(fed.right))
        /\ (Degenerate(fed.right) /\ ~Degenerate(fed.left)) =>
                (ear_counter > 0 <=> EarBelowTenth(fed.left))

C28_Witness ==
    /\ EyesFed /\ Degenerate(fed.left) /\ Degenerate(fed.right)
    /\ prev.run = 1 /\ ear_counter = 0 /\ fed.ear = 30

\* C29: ear_counter is never negative, is 0 after every processed frame whose
\* avg_ear is 0.20 or more, and after every closed frame is the length of the
\* run of closed frames that frame extends.
C29_CounterIsRunLength ==
    /\ ear_counter >= 0
    /\ OpenFed => ear_counter = 0
    /\ ClosedFed => ear_counter = run /\ run = prev.run + 1

C29_Witness == OpenFed /\ fed.ear = 20 /\ prev.run = 4 /\ ear_counter = 0

\* C30: a call on a frame without a face, or without a face mesh, leaves
\* ear_counter, total_blinks, blink_rate and last_blink_time as they are; the
\* closed frame that follows a frame without a face adds to the same count,
\* and a run of closed frames with faceless frames in between is drowsy from
\* its 15th closed frame and counts as a blink when it has 3 or more.
C30_NoFaceKeepsCounters ==
    [][/\ (prev'.called /\ ~(face_mesh /\ fed'.face)) =>
              UNCHANGED <<ear_counter, total_blinks, blink_rate, last_blink_time>>
       /\ (~fed.face /\ face_mesh /\ fed'.face /\ fed'.ear < 20) =>
              /\ ear_counter' = ear_counter + 1
              /\ run' >= 15 => result'.is_drowsy
       /\ (~fed.face /\ face_mesh /\ fed'.face /\ fed'.ear >= 20 /\ run >= 3) =>
              \/ total_blinks' = total_blinks + 1
              \/ total_blinks' = 0 /\ blink_rate' = total_blinks + 1]_vars

C30_Witness ==
    /\ prev.called /\ face_mesh /\ ~fed.face
    /\ run = 2 /\ ear_counter = 2 /\ total_blinks = 1

\* No start_camera or stop_camera handler is between its first and its last
\* step, and no get_enhanced_gaze is between its guard and its return.
NoStartStopRunning ==
    /\ \A h \in StartIds : starts[h].pc = "idle"
    /\ \A h \in StopIds : stops[h].pc = "idle"
Quiescent == NoStartStopRunning /\ poll.pc = "idle"

\* C31: when no request handler is mid-execution, tracking_active implies
\* camera_active.
C31_TrackingImpliesCamera == (Quiescent /\ tracking_active) => camera_active

\* C32: when camera_active is true and no start_camera or stop_camera handler
\* is mid-execution, an acquisition-loop thread is alive.
C32_ActiveCameraHasLoop == (NoStartStopRunning /\ camera_active) => Running # {}

\* C33: in EyeTrackingServer, when camera_active is true and no start or stop
\* handler is mid-execution, the capture handle is there and open (no stop
\* has released it or set it to None after the start that opened it).
C33_ActiveCameraHasHandle == (NoStartStopRunning /\ camera_active) => cap = "open"

\* C34: when no handler is mid-execution, camera_active is false and no loop
\* thread is alive, the capture handle is not an open, unreleased one.
C34_EndedLoopHandleReleased ==
    (Quiescent /\ ~camera_active /\ Running = {}) => cap # "open"

\* C35: a get_enhanced_gaze request that finds tracking on and a detection
\* result stored, and so answers with it, finds one stored since the camera
\* was last started, never one left from the session before.
C35_NoResultFromEarlierSession ==
    [][(get_enhanced_gaze /\ tracking_active /\ last_detection_result # None) =>
          stream.fresh]_vars

\* C36: a get_enhanced_gaze that evaluates its guard while tracking_active is
\* false answers at once with the default, face_detected false, whatever
\* result is stored; and a loop iteration that has read a frame and finds
\* tracking off sets the stored result to None.
C36_TrackingOffServesDefault ==
    [][/\ (get_enhanced_gaze /\ ~tracking_active) =>
              /\ gaze' = NoFaceBody /\ ~gaze'.face_detected
              /\ poll'.pc = "idle"
       /\ \A t \in ThreadIds :
              (detect(t) /\ ~tracking_active) => last_detection_result' = None]_vars

C36_Witness ==
    /\ camera_active /\ ~tracking_active /\ last_detection_result # None
    /\ gaze = NoFaceBody /\ poll.pc = "idle"
    /\ \E t \in ThreadIds : threads[t].pc = "detect"

Refused(h) ==
    /\ start_camera_open(h)
    /\ starts'[h].pc = "idle"
    /\ reply' = Reply("start_camera", FALSE, 500)

C38_RefusedStartLeavesStopped ==
    [][\A h \in StartIds : Refused(h) =>
            /\ ~camera_active' /\ ~frame_thread_active'
            /\ Running' = Running
            /\ cap' = "closed"]_vars

====
